---- MODULE Spec2Model ----
(***************************************************************************)
(* Model of traceb.py (Python 2): extraction of stack / traceback entries, *)
(* their rendering in the three tb_modes, exception formatting, the print_ *)
(* functions and monkey_patch.                                             *)
(*                                                                         *)
(* Text is a sequence of pieces.  Data that the code slices, strips or     *)
(* measures (file names, source lines, reprs, str() of values) is a        *)
(* sequence of one-character pieces; the literals of the format strings    *)
(* are single pieces.                                                      *)
(***************************************************************************)
EXTENDS Integers, Sequences, FiniteSets, TLC

VARIABLES tracebacklimit, last_exc, exc_info, ns, call, result

vars == <<tracebacklimit, last_exc, exc_info, ns, call, result>>

\* ---------------------------------------------------------------- bounds
MaxDepth == 3
MaxLimit == 3
MaxOffset == 6

\* None for the integer-valued optionals (limit, sys.tracebacklimit, offset)
None == -1

\* ------------------------------------------------- Python string helpers
Min(a, b) == IF a < b THEN a ELSE b
Max(a, b) == IF a > b THEN a ELSE b

\* s[i:j] with Python's index normalisation (negative indices count from
\* the end, out-of-range indices are clamped)
NormIndex(n, i) == IF i < 0 THEN Max(n + i, 0) ELSE Min(i, n)
Slice(s, i, j) == SubSeq(s, NormIndex(Len(s), i) + 1, NormIndex(Len(s), j))
SliceTo(s, j) == Slice(s, 0, j)
SliceFrom(s, i) == Slice(s, i, Len(s))

\* c.isspace()
isspace(c) == c \in {" ", "\t", "\n"}

RECURSIVE lstrip(_)
lstrip(s) == IF s # <<>> /\ isspace(Head(s)) THEN lstrip(Tail(s)) ELSE s

RECURSIVE rstrip(_)
rstrip(s) ==
  IF s # <<>> /\ isspace(s[Len(s)]) THEN rstrip(SubSeq(s, 1, Len(s) - 1)) ELSE s

strip(s) == rstrip(lstrip(s))

\* s.rstrip('\n')
RECURSIVE rstripNL(_)
rstripNL(s) ==
  IF s # <<>> /\ s[Len(s)] = "\n" THEN rstripNL(SubSeq(s, 1, Len(s) - 1)) ELSE s

\* "".join(lst)
RECURSIVE Join(_)
Join(lst) == IF lst = <<>> THEN <<>> ELSE Head(lst) \o Join(Tail(lst))

\* sep.join(lst)
RECURSIVE JoinSep(_, _)
JoinSep(sep, lst) ==
  IF lst = <<>> THEN <<>>
  ELSE IF Len(lst) = 1 THEN lst[1]
  ELSE lst[1] \o sep \o JoinSep(sep, Tail(lst))

\* list.reverse()
Reverse(lst) == [i \in 1..Len(lst) |-> lst[Len(lst) + 1 - i]]

\* outcome of evaluating a Python expression
Ok(v) == [raised |-> "", value |-> v, writes |-> <<>>]
Raise(e) == [raised |-> e, value |-> <<>>, writes |-> <<>>]

\* ------------------------------------------------ frames and linecache
\* The call stack of the program under inspection, oldest call first:
\* frame i was called by frame i-1.  A frame handle is its index, 0 is
\* None (f_back of the oldest frame).  A traceback handle tb is the index
\* of the frame it refers to, MaxDepth+1 is None (tb_next of the last).
NoFrame == 0
NoTb == MaxDepth + 1
f_back(f) == f - 1
tb_next(tb) == tb + 1
tb_frame(tb) == tb

ShortFile == <<"a", ".", "p", "y">>
LongFile == [i \in 1..33 |->
               IF i = 1 THEN "/" ELSE IF i = 9 THEN "/" ELSE IF i = 31 THEN "."
               ELSE IF i = 32 THEN "p" ELSE IF i = 33 THEN "y" ELSE "d"]

co_filename(f) == IF f % 2 = 1 THEN ShortFile ELSE LongFile
co_name(f) == <<"fn", ToString(f)>>
f_lineno(f) == 10 * f
tb_lineno(tb) == 10 * tb + 1

\* linecache.getline(filename, lineno): the source line with its newline,
\* or '' when the source is not available
getline(filename, lineno) ==
  CASE lineno \div 10 = 1 -> <<" ", " ", "g", "(", ")", "\n">>
    [] lineno \div 10 = 2 -> <<>>
    [] lineno \div 10 = 3 -> <<"\t", "x", "=", "1", " ", "\n">>
    [] OTHER -> <<"y", "\n">>

\* repr() of a local: [ok |-> FALSE] when __repr__ raises
ReprObj == <<"<", "F", "o", "o", " ", "o", "b", "j", "e", "c", "t", " ",
             "a", "t", " ", "0", "x", "7", "f", "9", "a", "1", "c", "0", ">">>
ReprLong == [i \in 1..30 |-> IF i = 1 THEN "'" ELSE IF i = 30 THEN "'"
                             ELSE IF i < 16 THEN "h" ELSE "t"]

\* inspect.getargvalues(frame): (args, varargs, varkw, locals)
getargvalues(f) ==
  CASE f % 3 = 1 ->
         [args |-> <<"a", "b">>, varargs |-> <<>>, varkw |-> <<>>,
          locals |-> [a |-> [ok |-> TRUE, repr |-> <<"2">>],
                      b |-> [ok |-> TRUE, repr |-> ReprObj]]]
    [] f % 3 = 2 ->
         [args |-> <<"x">>, varargs |-> <<"args">>, varkw |-> <<"kw">>,
          locals |-> [x |-> [ok |-> TRUE, repr |-> ReprLong],
                      args |-> [ok |-> TRUE, repr |-> <<"(", ")">>],
                      kw |-> [ok |-> TRUE, repr |-> <<"{", "}">>]]]
    [] OTHER ->
         [args |-> <<"v">>, varargs |-> <<>>, varkw |-> <<>>,
          locals |-> [v |-> [ok |-> FALSE, repr |-> <<>>]]]

\* ------------------------------------------------------ _format_value
_MaxParamLength == 25

\* Definitions take the values they use several times as parameters.

\* least element of a set of positions, 0 for the empty set
MinOf(S) == IF S = {} THEN 0 ELSE CHOOSE k \in S : \A m \in S : k <= m

\* position of the first occurrence of the pieces pat in s at or after
\* position i, 0 when there is none
FindFrom(s, pat, i) ==
  MinOf({k \in i..(Len(s) - Len(pat) + 1) :
           SubSeq(s, k, k + Len(pat) - 1) = pat})

\* the positions j of " at " that let '<(.+?) at .*?>' match from position
\* i; '.' does not match "\n"
MatchCands(s, i) ==
  {j \in (i + 2)..(Len(s) - 3) :
     /\ SubSeq(s, j, j + 3) = <<" ", "a", "t", " ">>
     /\ \A k \in (i + 1)..(j - 1) : s[k] # "\n"
     /\ \E e \in (j + 4)..Len(s) :
          /\ s[e] = ">"
          /\ \A k \in (j + 4)..(e - 1) : s[k] # "\n"}

\* <<end of group, end of match>> for " at " at position j, <<0, 0>> for j = 0
MatchEnds(s, j) ==
  IF j = 0 THEN <<0, 0>> ELSE <<j - 1, FindFrom(s, <<">">>, j + 4)>>

\* one match of '<(.+?) at .*?>' starting at position i
MatchAt(s, i) ==
  IF i > Len(s) \/ s[i] # "<" THEN <<0, 0>>
  ELSE MatchEnds(s, MinOf(MatchCands(s, i)))

\* re.sub('<(.+?) at .*?>', lambda m: '<%s>' % m.group(1), s), scanning from i
RECURSIVE reSubFrom(_, _)
reSubStep(s, i, m) ==
  IF m[2] = 0 THEN <<s[i]>> \o reSubFrom(s, i + 1)
  ELSE <<"<">> \o SubSeq(s, i + 1, m[1]) \o <<">">> \o reSubFrom(s, m[2] + 1)

reSubFrom(s, i) ==
  IF i > Len(s) THEN <<>> ELSE reSubStep(s, i, MatchAt(s, i))

\* s[:_MaxParamLength/2] + '......' + s[-_MaxParamLength/2:] for a long s
Truncate(s) ==
  IF Len(s) > _MaxParamLength
  THEN SliceTo(s, _MaxParamLength \div 2) \o <<"......">>
       \o SliceFrom(s, (-_MaxParamLength) \div 2)
  ELSE s

_format_value(repr) == <<"=">> \o Truncate(reSubFrom(repr, 1))

\* ------------------------------------------------------- _format_args
\* inspect.formatargvalues(args, varargs, varkw, locals, formatvalue)
ArgNames(av) == av.args \o av.varargs \o av.varkw

ArgPrefix(av, i) ==
  IF i <= Len(av.args) THEN <<>>
  ELSE IF i <= Len(av.args) + Len(av.varargs) THEN <<"*">>
  ELSE <<"**">>

ArgSpec(av, names, i) ==
  ArgPrefix(av, i) \o <<names[i]>> \o _format_value(av.locals[names[i]].repr)

FormatSpecs(av, names) ==
  IF \E i \in 1..Len(names) : ~av.locals[names[i]].ok
  THEN Raise("Exception")
  ELSE Ok(<<"(">>
          \o JoinSep(<<", ">>, [i \in 1..Len(names) |-> ArgSpec(av, names, i)])
          \o <<")">>)

formatargvalues(av) == FormatSpecs(av, ArgNames(av))

\* except Exception: prettyargs = '(?)'
OrPlaceholder(r) == IF r.raised # "" THEN <<"(?)">> ELSE r.value

_format_args(frame) == OrPlaceholder(formatargvalues(getargvalues(frame)))

\* ------------------------------------------- extract_tb / extract_stack
\* (variant: an explicit limit admits one entry too many)
EffectiveLimit_offbyone(limit, tblimit) ==
  IF limit = None THEN tblimit ELSE limit + 1

\* limit = None falls back to sys.tracebacklimit when that is set
EffectiveLimit(limit, tblimit) == IF limit = None THEN tblimit ELSE limit

\* (filename, lineno, name, line); isnone: the line is None
Entry(filename, lineno, name, src) ==
  [filename |-> filename, lineno |-> lineno, name |-> name,
   isnone |-> src = <<>>, line |-> IF src # <<>> THEN strip(src) ELSE <<>>]

\* the entry of one traceback link
TbEntry(f, filename, lineno, show_args) ==
  Entry(filename, lineno,
        IF show_args THEN co_name(f) \o _format_args(f) ELSE co_name(f),
        getline(filename, lineno))

\* the while loop of extract_tb from link tb with n entries collected
RECURSIVE extract_tb_loop(_, _, _, _)
extract_tb_loop(tb, lim, n, show_args) ==
  IF tb # NoTb /\ (lim = None \/ n < lim)
  THEN <<TbEntry(tb_frame(tb), co_filename(tb_frame(tb)), tb_lineno(tb),
                 show_args)>>
       \o extract_tb_loop(tb_next(tb), lim, n + 1, show_args)
  ELSE <<>>

extract_tb(tb, limit, show_args, tblimit) ==
  extract_tb_loop(tb, EffectiveLimit(limit, tblimit), 0, show_args)

\* the entry of one frame of the stack
StackEntry(f, filename, lineno) ==
  Entry(filename, lineno, co_name(f), getline(filename, lineno))

\* the while loop of extract_stack from frame f with n entries collected
RECURSIVE extract_stack_loop(_, _, _)
extract_stack_loop(f, lim, n) ==
  IF f # NoFrame /\ (lim = None \/ n < lim)
  THEN <<StackEntry(f, co_filename(f), f_lineno(f))>>
       \o extract_stack_loop(f_back(f), lim, n + 1)
  ELSE <<>>

\* f = None: the frame of the caller, the newest frame of the stack
CallerFrame == MaxDepth
StartFrame(f) == IF f = NoFrame THEN CallerFrame ELSE f

\* (variant: the collected list is not reversed)
extract_stack_noreverse(f, limit, tblimit) ==
  extract_stack_loop(StartFrame(f), EffectiveLimit(limit, tblimit), 0)

extract_stack(f, limit, tblimit) ==
  Reverse(extract_stack_loop(StartFrame(f), EffectiveLimit(limit, tblimit), 0))

\* ------------------------------------------------------ line renderers
\* truth value of an entry's line: neither None nor ''
Truthy(e) == ~e.isnone /\ e.line # <<>>

\* ': %s' % line if line else ''
LineSuffix(e) == IF Truthy(e) THEN <<": ">> \o e.line ELSE <<>>

\* '[...]' + filename[-25:] for a filename longer than 30 characters
ElideFile(filename) ==
  IF Len(filename) > 30 THEN <<"[...]">> \o SliceFrom(filename, -25)
  ELSE filename

_format_compressed_line(e) ==
  <<"  ">> \o ElideFile(e.filename) \o <<", ">> \o e.name \o <<", ">>
  \o <<ToString(e.lineno)>> \o LineSuffix(e) \o <<"\n">>

_format_compact_line(e) ==
  <<"  File \"">> \o e.filename \o <<"\", in ">> \o e.name
  \o <<" at line ">> \o <<ToString(e.lineno)>> \o LineSuffix(e) \o <<"\n">>

\* '    %s\n' % line.strip() if line
SourceLine(e) ==
  IF Truthy(e) THEN <<"    ">> \o strip(e.line) \o <<"\n">> ELSE <<>>

_format_line(e) ==
  <<"  File \"">> \o e.filename \o <<"\", line ">> \o <<ToString(e.lineno)>>
  \o <<", in ">> \o e.name \o <<"\n">> \o SourceLine(e)

\* _FMT_LINE_MAP[tb_mode](e): a defaultdict whose default is _format_line
_FMT_LINE_MAP(tb_mode, e) ==
  CASE tb_mode = "compressed" -> _format_compressed_line(e)
    [] tb_mode = "compact" -> _format_compact_line(e)
    [] OTHER -> _format_line(e)

format_list(extracted_list, tb_mode) ==
  [i \in 1..Len(extracted_list) |-> _FMT_LINE_MAP(tb_mode, extracted_list[i])]

\* ------------------------------------------------- Python call binding
\* the parameters of each def, in order, and how many have no default
Params(fn) ==
  CASE fn = "format_list" -> <<"extracted_list", "tb_mode">>
    [] fn = "print_list" -> <<"extracted_list", "file", "tb_mode", "show_args">>
    [] fn = "print_tb" -> <<"tb", "limit", "file">>
    [] fn = "format_tb" -> <<"tb", "limit", "tb_mode", "show_args">>
    [] fn = "extract_tb" -> <<"tb", "limit", "show_args">>
    [] fn = "print_exception" ->
         <<"etype", "value", "tb", "limit", "file", "tb_mode", "show_args">>
    [] fn = "format_exception" ->
         <<"etype", "value", "tb", "limit", "tb_mode", "show_args">>
    [] fn = "format_exception_only" -> <<"etype", "value">>
    [] fn = "print_exc" -> <<"limit", "file", "tb_mode", "show_args">>
    [] fn = "format_exc" -> <<"limit", "tb_mode", "show_args">>
    [] fn = "print_last" -> <<"limit", "file", "tb_mode", "show_args">>
    [] fn = "print_stack" -> <<"f", "limit", "file", "tb_mode", "show_args">>
    [] fn = "format_stack" -> <<"f", "limit", "tb_mode", "show_args">>
    [] fn = "extract_stack" -> <<"f", "limit">>

Required(fn) ==
  CASE fn \in {"format_list", "print_list", "print_tb", "format_tb",
               "extract_tb"} -> 1
    [] fn \in {"print_exception", "format_exception"} -> 3
    [] fn = "format_exception_only" -> 2
    [] OTHER -> 0

\* fn(*pos, **kw) binds: not too many positionals, every keyword names a
\* parameter not already given positionally, every required one is given
Binds(fn, npos, kwnames) ==
  /\ npos <= Len(Params(fn))
  /\ \A k \in kwnames : \E i \in (npos + 1)..Len(Params(fn)) : Params(fn)[i] = k
  /\ \A i \in 1..Required(fn) : i <= npos \/ Params(fn)[i] \in kwnames

\* ------------------------------------------------- exception formatting
NoFile == "None"
stderr == "stderr"

\* value.encode("ascii", "backslashreplace"): the piece "U+00E9" stands
\* for a non-ASCII character
encode_ascii(u) ==
  Join([i \in 1..Len(u) |-> IF u[i] = "U+00E9" THEN <<"\\xe9">> ELSE <<u[i]>>])

_some_str(value) ==
  IF value.strOk THEN value.str
  ELSE IF value.uniOk THEN encode_ascii(value.uni)
  ELSE <<"<unprintable ", value.tname, " object>">>

\* (variant: the test for a None value is missing)
FinalLine_nonone(etype, value, valuestr) ==
  IF valuestr = <<>> THEN etype \o <<"\n">>
  ELSE etype \o <<": ">> \o valuestr \o <<"\n">>

\* the line for type text etype and valuestr = _some_str(value)
FinalLine(etype, value, valuestr) ==
  IF value.isNone \/ valuestr = <<>> THEN etype \o <<"\n">>
  ELSE etype \o <<": ">> \o valuestr \o <<"\n">>

_format_final_exc_line(etype, value) ==
  FinalLine(etype, value, _some_str(value))

\* caretspace[:offset].lstrip() with offset = min(len(caretspace), offset) - 1
CaretSpace(caretspace, offset) ==
  lstrip(SliceTo(caretspace, Min(Len(caretspace), offset) - 1))

\* '    %s^\n' with non-space whitespace kept and the rest blanked
CaretText(cs) ==
  <<"    ">> \o [i \in 1..Len(cs) |-> IF isspace(cs[i]) THEN cs[i] ELSE " "]
  \o <<"^", "\n">>

\* the caret line for badline and offset (offset is not None)
CaretLine(badline, offset) == CaretText(CaretSpace(rstripNL(badline), offset))

\* '%s' % etype for an etype that is not a class
EtypeStr(etype) == IF etype.kind = "none" THEN <<"None">> ELSE etype.text

\* the lines for a SyntaxError whose value.args unpacks to a
SyntaxLines(stype, a) ==
  <<<<"  File \"">>
    \o (IF a.filename = <<>> THEN <<"<string>">> ELSE a.filename)
    \o <<"\", line ">> \o <<ToString(a.lineno)>> \o <<"\n">>>>
  \o (IF a.badnone THEN <<>>
      ELSE <<<<"    ">> \o strip(a.badline) \o <<"\n">>>>)
  \o (IF a.badnone \/ a.offset = None THEN <<>>
      ELSE <<CaretLine(a.badline, a.offset)>>)
  \o <<_format_final_exc_line(stype, a.msg)>>

format_exception_only(etype, value) ==
  IF etype.kind \in {"instance", "none", "str"}
  THEN <<_format_final_exc_line(EtypeStr(etype), value)>>
  ELSE IF ~etype.syntax \/ value.args = <<>>
  THEN <<_format_final_exc_line(etype.text, value)>>
  ELSE SyntaxLines(etype.text, value.args[1])

format_tb(tb, limit, tb_mode, show_args, tblimit) ==
  format_list(extract_tb(tb, limit, show_args, tblimit), tb_mode)

format_exception(etype, value, tb, limit, tb_mode, show_args, tblimit) ==
  (IF tb # NoTb
   THEN <<<<"Traceback (most recent call last):", "\n">>>>
        \o format_tb(tb, limit, tb_mode, show_args, tblimit)
   ELSE <<>>)
  \o format_exception_only(etype, value)

\* ------------------------------------------------------------ printing
\* _print(file, str): one write of str + terminator
_print(file, str) == [file |-> file, text |-> str \o <<"\n">>]

FileOrStderr(file) == IF file = NoFile THEN stderr ELSE file

print_exception(etype, value, tb, limit, file, tb_mode, show_args, tblimit) ==
  [raised |-> "", value |-> <<>>,
   writes |-> <<_print(FileOrStderr(file),
                       Join(format_exception(etype, value, tb, limit, tb_mode,
                                             show_args, tblimit)))>>]

\* format_list(extracted_list, tb_mode, show_args): three positionals
print_list(extracted_list, file, tb_mode, show_args) ==
  IF Binds("format_list", 3, {})
  THEN [raised |-> "", value |-> <<>>,
        writes |-> <<_print(FileOrStderr(file),
                            Join(format_list(extracted_list, tb_mode)))>>]
  ELSE Raise("TypeError")

\* the writes for one traceback link
PrintFrame(file, f, filename, lineno, line) ==
  <<_print(file, <<"  File \"">> \o filename \o <<"\", line ">>
                 \o <<ToString(lineno)>> \o <<", in ">> \o co_name(f))>>
  \o (IF line # <<>> THEN <<_print(file, <<"    ">> \o strip(line))>>
      ELSE <<>>)

\* the writes of the while loop of print_tb from link tb
RECURSIVE print_tb_loop(_, _, _, _)
print_tb_loop(tb, lim, n, file) ==
  IF tb # NoTb /\ (lim = None \/ n < lim)
  THEN PrintFrame(file, tb_frame(tb), co_filename(tb_frame(tb)), tb_lineno(tb),
                  getline(co_filename(tb_frame(tb)), tb_lineno(tb)))
       \o print_tb_loop(tb_next(tb), lim, n + 1, file)
  ELSE <<>>

print_tb(tb, limit, file, tblimit) ==
  [raised |-> "", value |-> <<>>,
   writes |-> print_tb_loop(tb, EffectiveLimit(limit, tblimit), 0,
                            FileOrStderr(file))]

\* sys.exc_info(): (None, None, None) when no exception is being handled
NoneType == [kind |-> "none", text |-> <<>>, syntax |-> FALSE]
NoneValue == [isNone |-> TRUE, strOk |-> TRUE, str |-> <<"N", "o", "n", "e">>,
              uniOk |-> TRUE, uni |-> <<>>, tname |-> "NoneType",
              args |-> <<>>]
ExcInfo(info) ==
  IF info = <<>> THEN [etype |-> NoneType, value |-> NoneValue, tb |-> NoTb]
  ELSE info[1]

\* print_exception(etype, value, tb, limit, file, tb_mode, show_args) for
\* the triple e
PrintTriple(e, limit, file, tb_mode, show_args, tblimit) ==
  print_exception(e.etype, e.value, e.tb, limit, FileOrStderr(file), tb_mode,
                  show_args, tblimit)

print_exc(limit, file, tb_mode, show_args, info, tblimit) ==
  PrintTriple(ExcInfo(info), limit, file, tb_mode, show_args, tblimit)

FormatTriple(e, limit, tb_mode, show_args, tblimit) ==
  Ok(Join(format_exception(e.etype, e.value, e.tb, limit, tb_mode, show_args,
                           tblimit)))

format_exc(limit, tb_mode, show_args, info, tblimit) ==
  FormatTriple(ExcInfo(info), limit, tb_mode, show_args, tblimit)

\* (variant: the hasattr(sys, "last_type") test is missing)
print_last_nocheck(limit, file, tb_mode, show_args, last, tblimit) ==
  PrintTriple(ExcInfo(last), limit, file, tb_mode, show_args, tblimit)

\* last: <<>> when sys has no last_type
print_last(limit, file, tb_mode, show_args, last, tblimit) ==
  IF last = <<>> THEN Raise("ValueError")
  ELSE PrintTriple(last[1], limit, file, tb_mode, show_args, tblimit)

print_stack(f, limit, file, tb_mode, show_args, tblimit) ==
  print_list(extract_stack(f, limit, tblimit), file, tb_mode, show_args)

\* format_list(extract_stack(f, limit), tb_mode, show_args): three positionals
format_stack(f, limit, tb_mode, show_args, tblimit) ==
  IF Binds("format_list", 3, {})
  THEN Ok(format_list(extract_stack(f, limit, tblimit), tb_mode))
  ELSE Raise("TypeError")

\* --------------------------------------------------------- monkey_patch
\* The target namespace M (the traceback module unless module= is given)
\* is a module other than traceb.  ns[n] is the binding of M.n: M's own
\* function, or functools.partial(<traceb function func>, **opts).
PatchedNames == {"format_list", "format_stack", "format_tb", "format_exc",
                 "format_exception", "print_list", "print_stack",
                 "print_last", "print_exc", "print_exception"}
OtherNames == {"print_tb", "extract_tb", "extract_stack",
               "format_exception_only", "tb_lineno"}
Names == PatchedNames \cup OtherNames

Original(n) == [orig |-> TRUE, func |-> n, opts |-> <<>>]
Partial(fn, options) == [orig |-> FALSE, func |-> fn, opts |-> options]

\* (variant: every name of the namespace is rebound)
monkey_patch_all(namespace, options) ==
  [n \in Names |-> Partial(n, options)]

monkey_patch(namespace, options) ==
  [n \in Names |-> IF n \in PatchedNames THEN Partial(n, options)
                   ELSE namespace[n]]

\* default values of the optional parameters
Defaults == [f |-> NoFrame, limit |-> None, file |-> NoFile,
             tb_mode |-> "compact", show_args |-> FALSE]

\* the body of traceb.fn on bound arguments a
Body(fn, a, env) ==
  CASE fn = "format_list" -> Ok(format_list(a.extracted_list, a.tb_mode))
    [] fn = "print_list" ->
         print_list(a.extracted_list, a.file, a.tb_mode, a.show_args)
    [] fn = "print_tb" -> print_tb(a.tb, a.limit, a.file, env.tblimit)
    [] fn = "format_tb" ->
         Ok(format_tb(a.tb, a.limit, a.tb_mode, a.show_args, env.tblimit))
    [] fn = "extract_tb" ->
         Ok(extract_tb(a.tb, a.limit, a.show_args, env.tblimit))
    [] fn = "print_exception" ->
         print_exception(a.etype, a.value, a.tb, a.limit, a.file, a.tb_mode,
                         a.show_args, env.tblimit)
    [] fn = "format_exception" ->
         Ok(format_exception(a.etype, a.value, a.tb, a.limit, a.tb_mode,
                             a.show_args, env.tblimit))
    [] fn = "format_exception_only" ->
         Ok(format_exception_only(a.etype, a.value))
    [] fn = "print_exc" ->
         print_exc(a.limit, a.file, a.tb_mode, a.show_args, env.info,
                   env.tblimit)
    [] fn = "format_exc" ->
         format_exc(a.limit, a.tb_mode, a.show_args, env.info, env.tblimit)
    [] fn = "print_last" ->
         print_last(a.limit, a.file, a.tb_mode, a.show_args, env.last,
                    env.tblimit)
    [] fn = "print_stack" ->
         print_stack(a.f, a.limit, a.file, a.tb_mode, a.show_args, env.tblimit)
    [] fn = "format_stack" ->
         format_stack(a.f, a.limit, a.tb_mode, a.show_args, env.tblimit)
    [] fn = "extract_stack" -> Ok(extract_stack(a.f, a.limit, env.tblimit))

\* fn(*pos, **kw): pos maps the leading parameters to the positional values
Apply(fn, pos, kw, env) ==
  IF Binds(fn, Cardinality(DOMAIN pos), DOMAIN kw)
  THEN Body(fn, kw @@ pos @@ Defaults, env)
  ELSE Raise("TypeError")

\* ------------------------------------------------------------- inputs
Tbs == 1..NoTb
Fs == 0..MaxDepth
Limits == {None} \cup 0..MaxLimit
\* the limits tried with the exception and print functions
FewLimits == {None, 1}
Files == {NoFile, "out"}
Modes == {"compact", "compressed", "verbose", "bogus"}

ClassType(name, syn) == [kind |-> "class", text |-> <<name>>, syntax |-> syn]
ValueErrorType == ClassType("ValueError", FALSE)
SyntaxErrorType == ClassType("SyntaxError", TRUE)
Etypes == {NoneType,
           [kind |-> "str", text |-> <<"o", "o", "p", "s">>, syntax |-> FALSE],
           [kind |-> "instance", text |-> <<"i", "n", "s", "t">>,
            syntax |-> FALSE],
           ValueErrorType, SyntaxErrorType}

StrValue(chars) == [isNone |-> FALSE, strOk |-> TRUE, str |-> chars,
                    uniOk |-> TRUE, uni |-> chars, tname |-> "str",
                    args |-> <<>>]
MsgValue == [StrValue(<<"b", "o", "o", "m">>) EXCEPT !.tname = "ValueError"]
EmptyValue == [StrValue(<<>>) EXCEPT !.tname = "ValueError"]
\* __str__ raises, unicode() works
UniValue == [isNone |-> FALSE, strOk |-> FALSE, str |-> <<>>, uniOk |-> TRUE,
             uni |-> <<"c", "a", "f", "U+00E9">>, tname |-> "ValueError",
             args |-> <<>>]
\* __str__ and __unicode__ both raise
BadValue == [isNone |-> FALSE, strOk |-> FALSE, str |-> <<>>, uniOk |-> FALSE,
             uni |-> <<>>, tname |-> "Bad", args |-> <<>>]
PlainValues == {NoneValue, MsgValue, EmptyValue, UniValue, BadValue}

\* SyntaxError(msg, (filename, lineno, offset, badline))
BadLines == {<<"x", "=", "=", "\n">>,
             <<" ", "\t", "a", "b", " ", "c", "\n">>,
             <<" ", " ", "\n">>,
             <<>>}
Messages == {StrValue(<<"b", "a", "d">>), StrValue(<<>>)}
SyntaxValue(msg, filename, offset, badnone, badline) ==
  [isNone |-> FALSE, strOk |-> TRUE, str |-> <<"s", "y", "n">>,
   uniOk |-> TRUE, uni |-> <<"s", "y", "n">>, tname |-> "SyntaxError",
   args |-> <<[msg |-> msg, filename |-> filename, lineno |-> 3,
               offset |-> offset, badnone |-> badnone, badline |-> badline]>>]
Offsets == {None} \cup 0..MaxOffset
SyntaxValues ==
  {SyntaxValue(m, ShortFile, o, FALSE, b) :
     m \in Messages, o \in Offsets, b \in BadLines}
  \cup {SyntaxValue(StrValue(<<"b", "a", "d">>), <<>>, 1, TRUE, <<>>)}

\* (etype, value, tb) triples as raised by the program under inspection
Exceptions ==
  {[etype |-> ValueErrorType, value |-> MsgValue],
   [etype |-> ValueErrorType, value |-> NoneValue],
   [etype |-> SyntaxErrorType,
    value |-> SyntaxValue(StrValue(<<"b", "a", "d">>), ShortFile, 0, FALSE,
                          <<" ", "\t", "a", "b", " ", "c", "\n">>)]}
\* arguments of format_exception_only: every type with every plain
\* value, and SyntaxError with every payload
ExceptionOnlyArgs ==
  {[etype |-> t, value |-> v] : t \in Etypes, v \in PlainValues}
  \cup {[etype |-> SyntaxErrorType, value |-> v] : v \in SyntaxValues}
  \cup {[etype |-> ValueErrorType,
          value |-> SyntaxValue(StrValue(<<"b", "a", "d">>), ShortFile, 1,
                                FALSE, <<"x", "=", "=", "\n">>)]}
Recorded == [etype |-> ValueErrorType, value |-> MsgValue, tb |-> 1]

\* lists as returned by extract_tb
ExtractedLists == {extract_tb(tb, None, FALSE, None) : tb \in Tbs}
                  \cup {extract_tb(1, None, TRUE, None)}

OptionSets == {[tb_mode |-> "compressed", show_args |-> TRUE],
               [tb_mode |-> "verbose"]}

Env == [tblimit |-> tracebacklimit, info |-> exc_info, last |-> last_exc]

\* ------------------------------------------------------------- actions
\* sys.tracebacklimit is unset or 1; either no exception has occurred, or
\* one is being handled and is recorded as the last exception
Init == /\ tracebacklimit \in {None, 1}
        /\ last_exc \in {<<>>, <<Recorded>>}
        /\ exc_info = last_exc
        /\ ns = [n \in Names |-> Original(n)]
        /\ call = [fn |-> "", via |-> "", args |-> <<>>]
        /\ result = Ok(<<>>)

\* The caller is single-threaded and synchronous: it issues one call at a
\* time and takes the outcome before the next one (call.fn = "" between
\* calls).
Idle == call.fn = ""

\* a direct call traceb.fn(**a) with outcome r
Direct(fn, a, r) ==
  /\ Idle
  /\ call' = [fn |-> fn, via |-> "traceb", args |-> a]
  /\ result' = r
  /\ UNCHANGED <<tracebacklimit, last_exc, exc_info, ns>>

ExtractTb ==
  \E tb \in Tbs, limit \in Limits, sa \in BOOLEAN :
    Direct("extract_tb", [tb |-> tb, limit |-> limit, show_args |-> sa],
           Ok(extract_tb(tb, limit, sa, tracebacklimit)))

ExtractStack ==
  \E f \in Fs, limit \in Limits :
    Direct("extract_stack", [f |-> f, limit |-> limit],
           Ok(extract_stack(f, limit, tracebacklimit)))

FormatList ==
  \E lst \in ExtractedLists, m \in Modes :
    Direct("format_list", [extracted_list |-> lst, tb_mode |-> m],
           Ok(format_list(lst, m)))

PrintList ==
  \E lst \in ExtractedLists, file \in Files, m \in Modes, sa \in BOOLEAN :
    Direct("print_list", [extracted_list |-> lst, file |-> file,
                          tb_mode |-> m, show_args |-> sa],
           print_list(lst, file, m, sa))

PrintTb ==
  \E tb \in Tbs, limit \in Limits, file \in Files :
    Direct("print_tb", [tb |-> tb, limit |-> limit, file |-> file],
           print_tb(tb, limit, file, tracebacklimit))

FormatTb ==
  \E tb \in Tbs, limit \in Limits, m \in Modes, sa \in BOOLEAN :
    Direct("format_tb", [tb |-> tb, limit |-> limit, tb_mode |-> m,
                         show_args |-> sa],
           Ok(format_tb(tb, limit, m, sa, tracebacklimit)))

PrintException ==
  \E e \in Exceptions, tb \in Tbs, limit \in FewLimits, file \in Files,
     m \in Modes, sa \in BOOLEAN :
    Direct("print_exception",
           [etype |-> e.etype, value |-> e.value, tb |-> tb, limit |-> limit,
            file |-> file, tb_mode |-> m, show_args |-> sa],
           print_exception(e.etype, e.value, tb, limit, file, m, sa,
                           tracebacklimit))

FormatException ==
  \E e \in Exceptions, tb \in Tbs, limit \in FewLimits, m \in Modes,
     sa \in BOOLEAN :
    Direct("format_exception",
           [etype |-> e.etype, value |-> e.value, tb |-> tb, limit |-> limit,
            tb_mode |-> m, show_args |-> sa],
           Ok(format_exception(e.etype, e.value, tb, limit, m, sa,
                               tracebacklimit)))

FormatExceptionOnly ==
  \E a \in ExceptionOnlyArgs :
    Direct("format_exception_only", [etype |-> a.etype, value |-> a.value],
           Ok(format_exception_only(a.etype, a.value)))

PrintExc ==
  \E limit \in FewLimits, file \in Files, m \in Modes, sa \in BOOLEAN :
    Direct("print_exc", [limit |-> limit, file |-> file, tb_mode |-> m,
                         show_args |-> sa],
           print_exc(limit, file, m, sa, exc_info, tracebacklimit))

FormatExc ==
  \E limit \in FewLimits, m \in Modes, sa \in BOOLEAN :
    Direct("format_exc", [limit |-> limit, tb_mode |-> m, show_args |-> sa],
           format_exc(limit, m, sa, exc_info, tracebacklimit))

PrintLast ==
  \E limit \in FewLimits, file \in Files, m \in Modes, sa \in BOOLEAN :
    Direct("print_last", [limit |-> limit, file |-> file, tb_mode |-> m,
                          show_args |-> sa],
           print_last(limit, file, m, sa, last_exc, tracebacklimit))

PrintStack ==
  \E f \in Fs, limit \in FewLimits, file \in Files, m \in Modes,
     sa \in BOOLEAN :
    Direct("print_stack", [f |-> f, limit |-> limit, file |-> file,
                           tb_mode |-> m, show_args |-> sa],
           print_stack(f, limit, file, m, sa, tracebacklimit))

FormatStack ==
  \E f \in Fs, limit \in Limits, m \in Modes, sa \in BOOLEAN :
    Direct("format_stack", [f |-> f, limit |-> limit, tb_mode |-> m,
                            show_args |-> sa],
           format_stack(f, limit, m, sa, tracebacklimit))

MonkeyPatch ==
  \E options \in OptionSets :
    /\ Idle
    /\ ns' = monkey_patch(ns, options)
    /\ call' = [fn |-> "monkey_patch", via |-> "traceb", args |-> options]
    /\ result' = Ok(<<>>)
    /\ UNCHANGED <<tracebacklimit, last_exc, exc_info>>

\* the positional arguments a caller of M.fn passes: the required ones,
\* optionally followed by limit (and f for the stack functions)
PositionalArgs(fn) ==
  CASE fn \in {"format_list", "print_list"} ->
         {[extracted_list |-> lst] : lst \in ExtractedLists}
    [] fn = "format_tb" ->
         {[tb |-> tb] : tb \in Tbs}
         \cup {[tb |-> tb, limit |-> l] : tb \in Tbs, l \in Limits}
    [] fn \in {"format_exception", "print_exception"} ->
         {[etype |-> e.etype, value |-> e.value, tb |-> tb] :
            e \in Exceptions, tb \in Tbs}
         \cup {[etype |-> e.etype, value |-> e.value, tb |-> tb, limit |-> l] :
                 e \in Exceptions, tb \in Tbs, l \in FewLimits}
    [] fn \in {"format_stack", "print_stack"} ->
         {<<>>} \cup {[f |-> f] : f \in Fs}
         \cup {[f |-> f, limit |-> l] : f \in Fs, l \in FewLimits}
    [] OTHER -> {<<>>} \cup {[limit |-> l] : l \in FewLimits}

\* a call M.fn(*pos) of a rebound entry point of the namespace
CallPatched ==
  \E fn \in PatchedNames :
    /\ Idle
    /\ ~ns[fn].orig
    /\ \E pos \in PositionalArgs(fn) :
         /\ call' = [fn |-> fn, via |-> "M", args |-> pos]
         /\ result' = Apply(ns[fn].func, pos, ns[fn].opts, Env)
    /\ UNCHANGED <<tracebacklimit, last_exc, exc_info, ns>>

\* the caller takes the outcome of the call and goes on
Return ==
  /\ ~Idle
  /\ call' = [fn |-> "", via |-> "", args |-> <<>>]
  /\ result' = Ok(<<>>)
  /\ UNCHANGED <<tracebacklimit, last_exc, exc_info, ns>>

Next == \/ ExtractTb \/ ExtractStack \/ FormatList \/ PrintList \/ PrintTb
        \/ FormatTb \/ PrintException \/ FormatException
        \/ FormatExceptionOnly \/ PrintExc \/ FormatExc \/ PrintLast
        \/ PrintStack \/ FormatStack \/ MonkeyPatch \/ CallPatched \/ Return

Spec == Init /\ [][Next]_vars

\* ===================================================================
\* Properties
\* ===================================================================
IsCall(fn) == call.fn = fn /\ call.via = "traceb"

\* length of the chain a handle starts
ChainLenTb(tb) == NoTb - tb

\* the whole chain, oldest call first, written from the frames themselves
FullTb(tb, show_args) ==
  [i \in 1..ChainLenTb(tb) |->
     LET f == tb + i - 1
     IN Entry(co_filename(f), tb_lineno(f),
              IF show_args THEN co_name(f) \o _format_args(f) ELSE co_name(f),
              getline(co_filename(f), tb_lineno(f)))]
FullStack(f) ==
  [i \in 1..StartFrame(f) |->
     Entry(co_filename(i), f_lineno(i), co_name(i),
           getline(co_filename(i), f_lineno(i)))]

ExpectedCount(L, N) ==
  IF N # None THEN Min(L, N) ELSE IF tracebacklimit = None THEN L ELSE -1

\* C1: extract_tb(tb, N) and extract_stack(f, N) return exactly min(L, N)
\* entries for a chain of length L and an explicit limit N >= 0, and exactly
\* L entries when limit is None and sys.tracebacklimit is not set; neither
\* raises.
C1_ExtractCount ==
  /\ IsCall("extract_tb") =>
       LET n == ExpectedCount(ChainLenTb(call.args.tb), call.args.limit)
       IN result.raised = "" /\ (n # -1 => Len(result.value) = n)
  /\ IsCall("extract_stack") =>
       LET n == ExpectedCount(StartFrame(call.args.f), call.args.limit)
       IN result.raised = "" /\ (n # -1 => Len(result.value) = n)

C1_Witness ==
  /\ IsCall("extract_tb")
  /\ call.args.limit = 2
  /\ ChainLenTb(call.args.tb) = 3
  /\ Len(result.value) = 2

\* C2 (as stated): with a limit N smaller than the chain length, extract_tb
\* and extract_stack both return the first N entries (the N oldest calls)
\* of the full oldest-first sequence.
C2_BothKeepOldest ==
  /\ (IsCall("extract_tb") /\ call.args.limit # None
      /\ call.args.limit < ChainLenTb(call.args.tb)) =>
       result.value = SubSeq(FullTb(call.args.tb, call.args.show_args), 1,
                             call.args.limit)
  /\ (IsCall("extract_stack") /\ call.args.limit # None
      /\ call.args.limit < StartFrame(call.args.f)) =>
       result.value = SubSeq(FullStack(call.args.f), 1, call.args.limit)

\* C2 (amended): with a limit N smaller than the chain length L, extract_tb
\* returns the first N entries (the N outermost calls) and extract_stack
\* returns the last N entries (the N newest calls, nearest the start frame)
\* of the full oldest-first sequence, both in oldest-first order.
C2_EndsKept ==
  /\ (IsCall("extract_tb") /\ call.args.limit # None
      /\ call.args.limit < ChainLenTb(call.args.tb)) =>
       result.value = SubSeq(FullTb(call.args.tb, call.args.show_args), 1,
                             call.args.limit)
  /\ (IsCall("extract_stack") /\ call.args.limit # None
      /\ call.args.limit < StartFrame(call.args.f)) =>
       result.value = SubSeq(FullStack(call.args.f),
                             StartFrame(call.args.f) - call.args.limit + 1,
                             StartFrame(call.args.f))

C2_Witness ==
  /\ IsCall("extract_stack")
  /\ call.args.f = 3
  /\ call.args.limit = 2
  /\ result.value = <<FullStack(3)[2], FullStack(3)[3]>>

\* C3: format_stack returns, and print_stack writes to the sink, the
\* result of format_list applied to extract_stack(f, limit), one block per
\* frame, oldest first, for every tb_mode and show_args, without raising.
C3_StackRendered ==
  /\ IsCall("format_stack") =>
       /\ result.raised = ""
       /\ result.value =
            format_list(extract_stack(call.args.f, call.args.limit,
                                      tracebacklimit), call.args.tb_mode)
  /\ IsCall("print_stack") =>
       /\ result.raised = ""
       /\ Join([i \in 1..Len(result.writes) |-> result.writes[i].text]) =
            Join(format_list(extract_stack(call.args.f, call.args.limit,
                                           tracebacklimit), call.args.tb_mode))

\* C4: the text print_exception writes is exactly the concatenation of the
\* strings format_exception returns for the same arguments, and each of
\* those strings ends with a line terminator.
C4_PrintEqualsFormat ==
  IsCall("print_exception") =>
    LET a == call.args
        lst == format_exception(a.etype, a.value, a.tb, a.limit, a.tb_mode,
                                a.show_args, tracebacklimit)
    IN /\ Join([i \in 1..Len(result.writes) |-> result.writes[i].text])
            = Join(lst)
       /\ \A i \in 1..Len(lst) : lst[i][Len(lst[i])] = "\n"

\* C5: every print_* operation performs exactly one write on its sink per
\* invocation (print_last with no recorded exception, which reports a usage
\* error, aside).
PrintFns == {"print_tb", "print_list", "print_exception", "print_exc",
             "print_last", "print_stack"}
C5_SingleWrite ==
  (call.fn \in PrintFns /\ call.via = "traceb"
   /\ ~(call.fn = "print_last" /\ last_exc = <<>>)) =>
    Len(result.writes) = 1

\* C6: print_last raises ValueError and writes nothing, whatever the file
\* argument, when sys has no last_type; otherwise it writes what
\* print_exception writes for (sys.last_type, sys.last_value,
\* sys.last_traceback).
C6_PrintLast ==
  IsCall("print_last") =>
    IF last_exc = <<>>
    THEN result.raised = "ValueError" /\ result.writes = <<>>
    ELSE /\ result.raised = ""
         /\ result.writes =
              <<_print(FileOrStderr(call.args.file),
                       Join(format_exception(last_exc[1].etype,
                                             last_exc[1].value, last_exc[1].tb,
                                             call.args.limit,
                                             call.args.tb_mode,
                                             call.args.show_args,
                                             tracebacklimit)))>>

C6_Witness ==
  /\ IsCall("print_last")
  /\ last_exc = <<>>
  /\ call.args.file = "out"
  /\ result.raised = "ValueError"
  /\ result.writes = <<>>

\* C7: after monkey_patch(module=M, tb_mode='compressed', show_args=True),
\* every rebound entry point of M called with positional arguments only
\* produces the output of the unpatched traceb operation called with those
\* arguments and tb_mode='compressed', show_args=True.
CompressedArgs == [tb_mode |-> "compressed", show_args |-> TRUE]
C7_PatchedEquivalent ==
  (call.via = "M" /\ ns[call.fn] = Partial(call.fn, CompressedArgs)) =>
    /\ result.raised = ""
    /\ result = Apply(call.fn, call.args, CompressedArgs, Env)

\* C8 (as stated): after any sequence of monkey_patch calls the original
\* entry points of the namespace are still obtainable, and the entry points
\* monkey_patch does not name are unchanged.
Obtainable(n) == {ns[n]}
SummaryType(etype) == IF etype.kind = "none" THEN <<"None">> ELSE etype.text
SummaryValue(etype, value) ==
  IF etype.kind = "class" /\ etype.syntax /\ value.args # <<>>
  THEN value.args[1].msg ELSE value
\* str(value), or the placeholder when the conversions fail
StrForm(v) ==
  IF v.strOk THEN v.str
  ELSE IF v.uniOk THEN encode_ascii(v.uni)
  ELSE <<"<unprintable ", v.tname, " object>">>
SummaryLine(T, v, withValue) ==
  IF withValue THEN T \o <<": ">> \o StrForm(v) \o <<"\n">> ELSE T \o <<"\n">>
IsSummaryCall == IsCall("format_exception_only") \/ IsCall("format_exception")

\* C9 (as stated): the last string of format_exception_only and of
\* format_exception is "<type>: <value>\n" exactly when the string form of
\* the value is non-empty and "<type>\n" otherwise, for every value.
C9_SummaryByStrForm ==
  IsSummaryCall =>
    LET v == SummaryValue(call.args.etype, call.args.value)
    IN /\ result.raised = ""
       /\ result.value[Len(result.value)] =
            SummaryLine(SummaryType(call.args.etype), v, StrForm(v) # <<>>)

\* C9 (amended): the last string is "<type>: <value>\n" exactly when the
\* value is not None and its string form is non-empty, and "<type>\n"
\* otherwise (so a None value gives "<type>\n" although str(None) is
\* non-empty); a value whose conversions fail is rendered with the
\* '<unprintable T object>' placeholder and nothing is raised.
C9_SummaryByValue ==
  IsSummaryCall =>
    LET v == SummaryValue(call.args.etype, call.args.value)
    IN /\ result.raised = ""
       /\ result.value[Len(result.value)] =
            SummaryLine(SummaryType(call.args.etype), v,
                        ~v.isNone /\ StrForm(v) # <<>>)

C9_Witness ==
  /\ IsCall("format_exception_only")
  /\ call.args.etype = ValueErrorType
  /\ call.args.value = NoneValue
  /\ result.value = <<<<"ValueError", "\n">>>>

\* number of leading whitespace characters
LeadingSpace(s) == Len(s) - Len(lstrip(s))

\* C10: for a syntax error with bad line and offset present, the result is
\* the file line, the stripped bad line, and a caret line whose caret is
\* under column min(offset, length of the line without its newline) of the
\* line as displayed (leading whitespace removed), for every offset >= 0;
\* the characters before the caret are spaces, except that other whitespace
\* is copied; the last line is '<type>: <message>'.
C10_CaretColumn ==
  (/\ IsCall("format_exception_only")
   /\ call.args.etype = SyntaxErrorType
   /\ call.args.value.args # <<>>
   /\ ~call.args.value.args[1].badnone
   /\ call.args.value.args[1].offset # None) =>
    LET a == call.args.value.args[1]
        line == rstripNL(a.badline)
        col == Min(a.offset, Len(line))
        w == LeadingSpace(line)
        width == Max(0, col - 1 - w)
        caret == result.value[3]
    IN /\ Len(result.value) = 4
       /\ result.value[2] = <<"    ">> \o strip(a.badline) \o <<"\n">>
       /\ Len(caret) = width + 3
       /\ caret[1] = "    "
       /\ caret[width + 2] = "^"
       /\ \A i \in 1..width :
            caret[i + 1] = IF isspace(line[w + i]) THEN line[w + i] ELSE " "
       /\ StrForm(a.msg) # <<>> =>
            result.value[4] = <<"SyntaxError", ": ">> \o StrForm(a.msg)
                              \o <<"\n">>
====
